---- MODULE Spec2Model ----
(***************************************************************************)
(* A model of mklib::RCPool<INST_T> (src/rcpool.h): the bounded resource   *)
(* pool InnerRCPool (inner_get / inner_put under the mutex cvlock, waiters *)
(* on the condition variable cv) and the lease GetWrapper (construction by *)
(* RCPool::get, move construction, move assignment, destruction).          *)
(*                                                                         *)
(* Granularity.  Every region of code that runs with cvlock held is one    *)
(* atomic step: nothing but cur_sz is read without the mutex.  A thread    *)
(* changes position where the code gives the mutex up: when cv.wait blocks *)
(* (lines 186/196), when a blocked thread is woken and must take the mutex *)
(* again, and between uq_cvlock.unlock() and cv.notify_one() (lines        *)
(* 240-241).                                                               *)
(*                                                                         *)
(* Line 68 reads rcpool_.inner_put(ptr_); rcpool_ is a shared_ptr, so the  *)
(* only program this line can be part of is the one that calls             *)
(* rcpool_->inner_put(ptr_), as line 84 does.  It is modelled that way.    *)
(***************************************************************************)
EXTENDS Integers, FiniteSets, TLC

\* ---------------------------------------------------------------- bounds
NumThreads == 3      \* threads that call get() and drop leases
MaxIdle    == 2      \* idle_limit_ passed to the constructor: 0..MaxIdle
MaxCfgMax  == 2      \* max_limit_ passed to the constructor: 0..MaxCfgMax
MaxInst    == 4      \* instances the factory may build in one behaviour

Threads == 1..NumThreads
Pools   == {1, 2}             \* pool objects; 0 stands for a null rcpool_
Slots   == {1, 2}             \* GetWrapper objects a thread may own
Insts   == 1..MaxInst         \* instance identities; 0 stands for nullptr

\* enum class GetStatus (lines 39-44)
GetStatus == {"SUCCESS", "CTORF", "TIMEOUT", "UNKNOWN"}

\* What one call of factory() does: it returns an instance, it throws an
\* exception derived from std::exception, or it throws anything else.
FactoryOutcomes == {"ok", "std_exception", "other_exception"}

\* timeout_s of get(): 0 waits without a deadline, non-zero sets one.
Timeouts == {0, 1}

VARIABLES
    idle_limit,  \* [Pools -> Nat]            InnerRCPool::idle_limit
    max_limit,   \* [Pools -> Nat]            InnerRCPool::max_limit
    cur_sz,      \* [Pools -> Nat]            InnerRCPool::cur_sz
    used,        \* [Pools -> SUBSET Insts]   keys of InnerRCPool::used
    unused,      \* [Pools -> SUBSET Insts]   keys of InnerRCPool::unused
    nextInst,    \* identity of the next object make_shared builds
    pc,          \* [Threads -> position]     where each thread is
    cpool,       \* [Threads -> Pools \cup {0}] pool of the call in flight
    dst,         \* [Threads -> Slots \cup {0}] wrapper get() will return into
    tmo,         \* [Threads -> "none"|"pending"|"passed"] deadline of the wait
    w,           \* [Threads -> [Slots -> wrapper]] the GetWrapper objects
    crashed      \* the process died dereferencing a null rcpool_

vars == <<idle_limit, max_limit, cur_sz, used, unused, nextInst,
          pc, cpool, dst, tmo, w, crashed>>

poolvars == <<cur_sz, used, unused>>

\* A GetWrapper (lines 117-120); alive is FALSE where no object exists.
GetWrapper(pool, ptr, err) ==
    [alive |-> TRUE, rcpool_ |-> pool, ptr_ |-> ptr, err_ |-> err]

NoWrapper == [alive |-> FALSE, rcpool_ |-> 0, ptr_ |-> 0, err_ |-> "UNKNOWN"]

\* Line 164 without std::max: max_limit = max_limit_.
Max_uncoerced(a, b) == b

\* std::max (line 164)
Max(a, b) == IF a >= b THEN a ELSE b

\* InnerRCPool::InnerRCPool (lines 161-168) for every pool object, pool p
\* being built from idle_limits_[p] and max_limits_[p]
InnerRCPools(idle_limits_, max_limits_) ==
    /\ cur_sz     = [p \in Pools |-> 0]
    /\ idle_limit = [p \in Pools |-> idle_limits_[p]]
    /\ max_limit  = [p \in Pools |-> Max(idle_limits_[p], max_limits_[p])]
    /\ used       = [p \in Pools |-> {}]
    /\ unused     = [p \in Pools |-> {}]

\* InnerRCPool::InnerRCPool (lines 161-168), the pools built alike
InnerRCPool(idle_limit_, max_limit_) ==
    InnerRCPools([p \in Pools |-> idle_limit_], [p \in Pools |-> max_limit_])

\* No thread has called the pool yet and no GetWrapper exists.
NoCalls ==
    /\ nextInst = 1
    /\ pc      = [t \in Threads |-> "ready"]
    /\ cpool   = [t \in Threads |-> 0]
    /\ dst     = [t \in Threads |-> 0]
    /\ tmo     = [t \in Threads |-> "none"]
    /\ w       = [t \in Threads |-> [s \in Slots |-> NoWrapper]]
    /\ crashed = FALSE

Init ==
    /\ \E idle_limit_ \in 0..MaxIdle, max_limit_ \in 0..MaxCfgMax :
           InnerRCPool(idle_limit_, max_limit_)
    /\ NoCalls


\* ------------------------------------------------------------ Pool Core

\* A slip in the comparison of line 245: <= for <.
resource_available_le(p) == cur_sz[p] <= max_limit[p]

\* InnerRCPool::resource_available (lines 244-246)
resource_available(p) == cur_sz[p] < max_limit[p]

\* The threads blocked in cv.wait / cv.wait_until on pool p's cv (line 252)
cv(p) == {t \in Threads : pc[t] = "waiting" /\ cpool[t] = p}

\* Calls of inner_get that have not returned yet
InFlight == {t \in Threads : pc[t] \in {"waiting", "woken"}}

\* Line 206 left out: the reused instance stays in unused.
unused_erase_skipped(p, i) == unused

\* unused.erase(unused.begin()) (line 206), i being the element at begin()
unused_erase(p, i) == [unused EXCEPT ![p] = @ \ {i}]

\* Line 219 left out: the instance handed out is not entered in used.
used_emplace_skipped(p, i) == used

\* used.emplace(this_get.get(), this_get) (line 219)
used_emplace(p, i) == [used EXCEPT ![p] = @ \cup {i}]

\* cur_sz++ moved in front of the try block: counted before factory() ran.
cur_sz_constructed_early(p, f) == [cur_sz EXCEPT ![p] = @ + 1]

\* cur_sz after the else branch of lines 208-217: cur_sz++ is reached only
\* when factory() returned.
cur_sz_constructed(p, f) ==
    [cur_sz EXCEPT ![p] = IF f = "ok" THEN @ + 1 ELSE @]

\* What leaves inner_get when factory() throws (lines 209-215): an exception
\* derived from std::exception is wrapped, anything else passes through.
inner_get_throws(f) ==
    IF f = "std_exception" THEN "GenericResourceException" ELSE "other"

\* The catch clauses of RCPool::get (lines 142-150)
get_catch(e) ==
    CASE e = "ResourceTimedoutException" -> GetWrapper(0, 0, "TIMEOUT")
      [] e = "GenericResourceException"  -> GetWrapper(0, 0, "CTORF")
      [] OTHER                           -> GetWrapper(0, 0, "UNKNOWN")

\* The call of thread t is over: get() has built its GetWrapper in slot s.
get_returns(t, s, wr) ==
    /\ w'     = [w EXCEPT ![t][s] = wr]
    /\ pc'    = [pc EXCEPT ![t] = "ready"]
    /\ cpool' = [cpool EXCEPT ![t] = 0]
    /\ dst'   = [dst EXCEPT ![t] = 0]
    /\ tmo'   = [tmo EXCEPT ![t] = "none"]

\* The test of line 204 always failing: every call builds an instance.
reuse_idle_never(p) == FALSE

\* !unused.empty() (line 204)
reuse_idle(p) == unused[p] # {}

\* inner_get once the wait is over (lines 202-221), and the return of get
\* (line 140) or its catch clauses: reuse an idle instance, else build one.
inner_get(t, p, s, f) ==
    IF reuse_idle(p)
    THEN \E i \in unused[p] :
            /\ unused' = unused_erase(p, i)
            /\ used'   = used_emplace(p, i)
            /\ UNCHANGED <<cur_sz, nextInst>>
            /\ get_returns(t, s, GetWrapper(p, i, "SUCCESS"))
    ELSE IF f = "ok"
    THEN /\ cur_sz'   = cur_sz_constructed(p, f)
         /\ used'     = used_emplace(p, nextInst)
         /\ nextInst' = nextInst + 1
         /\ UNCHANGED unused
         /\ get_returns(t, s, GetWrapper(p, nextInst, "SUCCESS"))
    ELSE /\ cur_sz' = cur_sz_constructed(p, f)
         /\ UNCHANGED <<used, unused, nextInst>>
         /\ get_returns(t, s, get_catch(inner_get_throws(f)))

\* A timed wait that gives up on any wake without capacity.
timed_out_any_wake(t) == tmo[t] # "none"

\* The deadline test of cv.wait_until (lines 186-193): t gives up only when
\* steady_clock has passed now + timeout_s.
timed_out(t) == tmo[t] = "passed"

\* A wait without its predicate: whoever is woken goes on.
wait_pred_none(p) == TRUE

\* The predicate the wait re-checks on every wake (lines 189, 198)
wait_pred(p) == resource_available(p)

\* RCPool::get (lines 138-151) up to the first test of the wait predicate
\* (lines 184-200): with capacity the call runs through, without it the
\* thread blocks on cv.  The guard keeps an instance identity free for every
\* call in flight.
get(t, p, s, timeout_s, f) ==
    /\ ~crashed
    /\ pc[t] = "ready"
    /\ ~w[t][s].alive
    /\ nextInst + Cardinality(InFlight) <= MaxInst
    /\ UNCHANGED <<idle_limit, max_limit, crashed>>
    /\ IF resource_available(p)
       THEN inner_get(t, p, s, f)
       ELSE /\ pc'    = [pc EXCEPT ![t] = "waiting"]
            /\ cpool' = [cpool EXCEPT ![t] = p]
            /\ dst'   = [dst EXCEPT ![t] = s]
            /\ tmo'   = [tmo EXCEPT ![t] = IF timeout_s = 0 THEN "none"
                                                            ELSE "pending"]
            /\ UNCHANGED <<poolvars, nextInst, w>>

\* A woken thread has the mutex again and re-checks the predicate (the loop
\* inside cv.wait / cv.wait_until, lines 186-200): it goes on, gives up with
\* ResourceTimedoutException (line 192), or blocks again.
wait_wake(t, f) ==
    /\ ~crashed
    /\ pc[t] = "woken"
    /\ UNCHANGED <<idle_limit, max_limit, crashed>>
    /\ IF wait_pred(cpool[t])
       THEN inner_get(t, cpool[t], dst[t], f)
       ELSE IF timed_out(t)
       THEN /\ get_returns(t, dst[t], get_catch("ResourceTimedoutException"))
            /\ UNCHANGED <<poolvars, nextInst>>
       ELSE /\ pc' = [pc EXCEPT ![t] = "waiting"]
            /\ UNCHANGED <<poolvars, nextInst, cpool, dst, tmo, w>>

\* The condition variable may wake a blocked thread without any notify.
spurious_wakeup(t) ==
    /\ ~crashed
    /\ pc[t] = "waiting"
    /\ pc' = [pc EXCEPT ![t] = "woken"]
    /\ UNCHANGED <<idle_limit, max_limit, poolvars, nextInst, cpool, dst,
                   tmo, w, crashed>>

\* steady_clock passes the deadline of t's wait_until (line 188); a thread
\* still blocked stops waiting.
deadline(t) ==
    /\ ~crashed
    /\ tmo[t] = "pending"
    /\ tmo' = [tmo EXCEPT ![t] = "passed"]
    /\ pc'  = [pc EXCEPT ![t] = IF @ = "waiting" THEN "woken" ELSE @]
    /\ UNCHANGED <<idle_limit, max_limit, poolvars, nextInst, cpool, dst,
                   w, crashed>>

\* notify_all for notify_one: every blocked thread is unblocked.
notified_all(p) == {cv(p)}

\* The sets of threads one cv.notify_one() can unblock (line 241): any one
\* of the threads blocked on cv.
notified(p) == {{n} : n \in cv(p)}

\* cv.notify_one() (line 241), after the mutex was given up (line 240)
notify_one(t) ==
    /\ ~crashed
    /\ pc[t] = "notify"
    /\ IF cv(cpool[t]) = {}
       THEN pc' = [pc EXCEPT ![t] = "ready"]
       ELSE \E N \in notified(cpool[t]) :
               pc' = [u \in Threads |->
                         IF u = t THEN "ready"
                         ELSE IF u \in N THEN "woken" ELSE pc[u]]
    /\ cpool' = [cpool EXCEPT ![t] = 0]
    /\ UNCHANGED <<idle_limit, max_limit, poolvars, nextInst, dst, tmo, w,
                   crashed>>

\* Line 231 left out: a dropped instance is still counted.
cur_sz_discard_skipped(p) == cur_sz

\* cur_sz-- (line 231)
cur_sz_discard(p) == [cur_sz EXCEPT ![p] = @ - 1]

\* The test of line 227 left out: every instance handed in counts as leased.
leased_unchecked(p, i) == TRUE

\* used.find(ptr.get()) != used.end() (lines 226-227)
leased(p, i) == i \in used[p]

\* The test of line 230 on the size of the idle set instead of the leased set.
discards_by_idle_size(p) == Cardinality(unused[p]) > idle_limit[p]

\* The test of line 230 always failing: every released instance is parked.
discards_never(p) == FALSE

\* used.size() > idle_limit (line 230): the released instance is dropped.
discards(p) == Cardinality(used[p]) > idle_limit[p]

\* InnerRCPool::inner_put (lines 224-240), called by thread t: an instance
\* that is not leased is ignored (line 227); else it is dropped or parked
\* and t goes on to notify.
inner_put(t, p, i) ==
    IF ~leased(p, i)
    THEN UNCHANGED <<poolvars, pc, cpool>>
    ELSE /\ IF discards(p)
            THEN /\ cur_sz' = cur_sz_discard(p)
                 /\ UNCHANGED unused
            ELSE /\ unused' = [unused EXCEPT ![p] = @ \cup {i}]
                 /\ UNCHANGED cur_sz
         /\ used'  = [used EXCEPT ![p] = @ \ {i}]
         /\ pc'    = [pc EXCEPT ![t] = "notify"]
         /\ cpool' = [cpool EXCEPT ![t] = p]

\* A call of inner_put(ptr) on pool p with any instance, leased or not (the
\* release operation of the pool, open to GetWrapper as a friend, line 180).
release(t, p, i) ==
    /\ ~crashed
    /\ pc[t] = "ready"
    /\ inner_put(t, p, i)
    /\ UNCHANGED <<idle_limit, max_limit, nextInst, dst, tmo, w, crashed>>

\* RCPool::size (lines 153-155)
size(p) == cur_sz[p]

\* ---------------------------------------------------------------- Lease

\* rcpool_->inner_put(ptr_) of a wrapper whose rcpool_ is null (lines 68,
\* 84) is undefined: the process dies, or the call does nothing.
NullPoolOutcomes == {"crash", "nothing"}

\* GetWrapper::~GetWrapper (lines 81-86) on slot s of thread t
dtor(t, s) ==
    /\ ~crashed
    /\ pc[t] = "ready"
    /\ w[t][s].alive
    /\ UNCHANGED <<idle_limit, max_limit, nextInst, dst, tmo>>
    /\ IF w[t][s].ptr_ = 0
       THEN /\ w' = [w EXCEPT ![t][s] = NoWrapper]
            /\ UNCHANGED <<poolvars, pc, cpool, crashed>>
       ELSE IF w[t][s].rcpool_ = 0
       THEN \E o \in NullPoolOutcomes :
               /\ crashed' = (o = "crash")
               /\ w' = IF o = "crash" THEN w
                       ELSE [w EXCEPT ![t][s] = NoWrapper]
               /\ UNCHANGED <<poolvars, pc, cpool>>
       ELSE /\ inner_put(t, w[t][s].rcpool_, w[t][s].ptr_)
            /\ w' = [w EXCEPT ![t][s] = NoWrapper]
            /\ UNCHANGED crashed

\* GetWrapper(GetWrapper && rhs) (lines 58-63): slot d is built from slot s.
\* err_ has no initializer, so the new object's err_ is any GetStatus.
move_ctor(t, d, s) ==
    /\ ~crashed
    /\ pc[t] = "ready"
    /\ d # s
    /\ ~w[t][d].alive
    /\ w[t][s].alive
    /\ \E e \in GetStatus :
          w' = [w EXCEPT ![t][d] = [alive   |-> TRUE,
                                    rcpool_ |-> w[t][s].rcpool_,
                                    ptr_    |-> w[t][s].ptr_,
                                    err_    |-> e],
                         ![t][s].ptr_ = 0]
    /\ UNCHANGED <<idle_limit, max_limit, poolvars, nextInst, pc, cpool,
                   dst, tmo, crashed>>

\* The wrappers after lines 69-76 of operator=: ptr_ = nullptr,
\* ptr_ = rhs.ptr_, rhs.ptr_ = nullptr, in this order (d and s may be the
\* same object); rcpool_ and err_ are not assigned.
inherit_other(t, d, s) ==
    LET w1 == [w  EXCEPT ![t][d].ptr_ = 0]
        w2 == [w1 EXCEPT ![t][d].ptr_ = w1[t][s].ptr_]
    IN  [w2 EXCEPT ![t][s].ptr_ = 0]

\* GetWrapper::operator=(GetWrapper && rhs) (lines 65-79): slot d = move(s)
move_assign(t, d, s) ==
    /\ ~crashed
    /\ pc[t] = "ready"
    /\ w[t][d].alive
    /\ w[t][s].alive
    /\ UNCHANGED <<idle_limit, max_limit, nextInst, dst, tmo>>
    /\ IF w[t][d].ptr_ = 0
       THEN /\ w' = inherit_other(t, d, s)
            /\ UNCHANGED <<poolvars, pc, cpool, crashed>>
       ELSE IF w[t][d].rcpool_ = 0
       THEN \E o \in NullPoolOutcomes :
               /\ crashed' = (o = "crash")
               /\ w' = IF o = "crash" THEN w ELSE inherit_other(t, d, s)
               /\ UNCHANGED <<poolvars, pc, cpool>>
       ELSE /\ inner_put(t, w[t][d].rcpool_, w[t][d].ptr_)
            /\ w' = inherit_other(t, d, s)
            /\ UNCHANGED crashed

\* ------------------------------------------------------- specifications

\* Threads that acquire from one pool and drop their leases.
Next ==
    \E t \in Threads :
        \/ \E timeout_s \in Timeouts, f \in FactoryOutcomes :
               get(t, 1, 1, timeout_s, f)
        \/ \E f \in FactoryOutcomes : wait_wake(t, f)
        \/ spurious_wakeup(t)
        \/ deadline(t)
        \/ notify_one(t)
        \/ dtor(t, 1)

Spec == Init /\ [][Next]_vars

\* One thread that holds several leases of two pools and moves them around.
LeaseThreads == {1}

NextLease ==
    \E t \in LeaseThreads :
        \/ \E p \in Pools, s \in Slots, timeout_s \in Timeouts,
              f \in FactoryOutcomes : get(t, p, s, timeout_s, f)
        \/ \E f \in FactoryOutcomes : wait_wake(t, f)
        \/ spurious_wakeup(t)
        \/ deadline(t)
        \/ notify_one(t)
        \/ \E s \in Slots : dtor(t, s)
        \/ \E d \in Slots, s \in Slots : move_ctor(t, d, s)
        \/ \E d \in Slots, s \in Slots : move_assign(t, d, s)

SpecLease == Init /\ [][NextLease]_vars

\* Two threads that acquire and drop leases and also call release directly,
\* with instances that are leased, idle, dropped or not built.
ReleaseThreads == {1, 2}

NextRelease ==
    \E t \in ReleaseThreads :
        \/ \E timeout_s \in Timeouts, f \in FactoryOutcomes :
               get(t, 1, 1, timeout_s, f)
        \/ \E f \in FactoryOutcomes : wait_wake(t, f)
        \/ spurious_wakeup(t)
        \/ deadline(t)
        \/ notify_one(t)
        \/ dtor(t, 1)
        \/ \E i \in Insts : release(t, 1, i)

SpecRelease == Init /\ [][NextRelease]_vars

\* The scenario RCPool(1, 2): threads call get(0) on a pool with
\* idle_limit = 1 and max_limit = 2 whose factory does not fail, hold up to
\* two leases each and drop them.
InitScenario ==
    /\ InnerRCPool(1, 2)
    /\ NoCalls

NextScenario ==
    \E t \in Threads :
        \/ \E s \in Slots : get(t, 1, s, 0, "ok")
        \/ wait_wake(t, "ok")
        \/ spurious_wakeup(t)
        \/ notify_one(t)
        \/ \E s \in Slots : dtor(t, s)

SpecScenario == InitScenario /\ [][NextScenario]_vars

\* Pool 1 is built as RCPool(idle_limit_, max_limit_) and pool 2 as
\* RCPool(0, max_limit_), so that the max_limit of pool 2 is the max_limit_
\* both were configured with; the threads work on pool 1 as in Spec.
InitCtor ==
    /\ \E idle_limit_ \in 0..MaxIdle, max_limit_ \in 0..MaxCfgMax :
           InnerRCPools([p \in Pools |-> IF p = 1 THEN idle_limit_ ELSE 0],
                        [p \in Pools |-> max_limit_])
    /\ NoCalls

SpecCtor == InitCtor /\ [][Next]_vars


\* --------------------------------------------------------------- claims

\* The wrappers of all threads that hold an instance
Holders == {ts \in Threads \X Slots :
               w[ts[1]][ts[2]].alive /\ w[ts[1]][ts[2]].ptr_ # 0}

\* C1: under every interleaving of acquire and release, the number of
\* instances in the leased set of a pool never exceeds its max_limit.
C1_LeasedWithinMax ==
    \A p \in Pools : Cardinality(used[p]) <= max_limit[p]

\* C1's case: the pool is leased out to its limit and a thread is blocked.
C1_Witness ==
    /\ max_limit[1] >= 2
    /\ Cardinality(used[1]) = max_limit[1]
    /\ cv(1) # {}

\* C2: whenever no thread holds the mutex (every state here: a region under
\* the mutex is one step), after acquires that succeeded, timed out or failed
\* in the factory and after releases, size() equals |leased| + |idle|.
C2_LiveCountIsLeasedPlusIdle ==
    \A p \in Pools : size(p) = Cardinality(used[p]) + Cardinality(unused[p])

\* C2's case: an instance was dropped and another parked by releases, one
\* acquire has timed out and one has failed in the factory.
C2_Witness ==
    /\ unused[1] # {}
    /\ nextInst > size(1) + 1
    /\ \E t \in Threads : w[t][1].alive /\ w[t][1].err_ = "CTORF"
    /\ \E t \in Threads : w[t][1].alive /\ w[t][1].err_ = "TIMEOUT"

\* C3: live_count never exceeds max_limit, whatever the configuration and
\* however woken waiters race to construct.
C3_LiveWithinMax ==
    \A p \in Pools : cur_sz[p] <= max_limit[p]

\* C3's case: room for one instance, and two woken threads about to take it.
C3_Witness ==
    /\ max_limit[1] >= 1
    /\ cur_sz[1] = max_limit[1] - 1
    /\ Cardinality({t \in Threads : pc[t] = "woken" /\ cpool[t] = 1}) >= 2

\* C4: an instance is never leased and idle at once, only built instances
\* are in a set, every instance a lease holds is leased, and no two leases
\* hold the same instance.
C4_OneStatePerInstance ==
    /\ \A p \in Pools :
          /\ used[p] \cap unused[p] = {}
          /\ \A i \in used[p] \cup unused[p] : i < nextInst
    /\ \A h \in Holders :
          /\ w[h[1]][h[2]].rcpool_ \in Pools
          /\ w[h[1]][h[2]].ptr_ \in used[w[h[1]][h[2]].rcpool_]
          /\ \A g \in Holders : g # h =>
                w[g[1]][g[2]].ptr_ # w[h[1]][h[2]].ptr_

\* C4's case: a thread holds an instance that is not the newest one while
\* another instance is idle.
C4_Witness ==
    /\ unused[1] # {}
    /\ \E t \in Threads : w[t][1].alive /\ w[t][1].ptr_ \in used[1]
                          /\ w[t][1].ptr_ + 1 < nextInst


\* Thread t's call of get() returns in this step, building wrapper wr.
Returns(t, wr) ==
    /\ pc'[t] = "ready"
    /\ \E s \in Slots : ~w[t][s].alive /\ w'[t][s] = wr

\* Thread t's call of get() returns a lease of status st in this step.
ReturnsStatus(t, st) ==
    /\ pc'[t] = "ready"
    /\ \E s \in Slots : /\ ~w[t][s].alive
                        /\ w'[t][s].alive
                        /\ w'[t][s].err_ = st

\* A step of thread t inside a call of get() that has not got an instance:
\* the call starts and blocks, a blocked thread is woken, a woken thread
\* blocks again, or the call returns TimedOut.
WaitsOrTimesOut(t) ==
    \/ pc'[t] = "waiting" /\ pc[t] # "waiting"
    \/ pc'[t] = "woken" /\ pc[t] # "woken"
    \/ pc[t] = "woken" /\ ReturnsStatus(t, "TIMEOUT")

\* C7: a get() with a non-zero timeout returns TimedOut only after its
\* deadline has passed and only from a saturated pool; the lease holds no
\* instance and no pool, and no step of the call, from its start to its
\* return, changes live_count, the leased set or the idle set.
C7_TimedOutLeavesPoolAlone ==
    [][\A t \in Threads :
          /\ ReturnsStatus(t, "TIMEOUT") =>
                /\ pc[t] = "woken"
                /\ tmo[t] = "passed"
                /\ cur_sz[cpool[t]] = max_limit[cpool[t]]
                /\ Returns(t, GetWrapper(0, 0, "TIMEOUT"))
          /\ WaitsOrTimesOut(t) => UNCHANGED poolvars]_vars

\* C7's case: a timed acquire has returned TimedOut from a pool that is
\* leased out to its limit.
C7_Witness ==
    /\ max_limit[1] >= 1
    /\ Cardinality(used[1]) = max_limit[1]
    /\ \E t \in Threads : w[t][1].alive /\ w[t][1].err_ = "TIMEOUT"

\* Thread t's step calls factory(), which does f: the wait is over and the
\* idle set is empty (lines 204, 208-210).  Such a call returns in the same
\* step, so one of t's wrappers is built in it.
CallsFactory(t, f) ==
    \/ /\ pc[t] = "ready"
       /\ w'[t] # w[t]
       /\ \E p \in Pools :
             /\ resource_available(p)
             /\ unused[p] = {}
             /\ \E s \in Slots, timeout_s \in Timeouts :
                   get(t, p, s, timeout_s, f)
    \/ /\ pc[t] = "woken"
       /\ wait_pred(cpool[t])
       /\ unused[cpool[t]] = {}
       /\ wait_wake(t, f)

Raises == {"std_exception", "other_exception"}

Settled(p) == \A t \in Threads : cpool[t] = p => pc[t] = "waiting"

\* C5: with max_limit >= 1, no state is reachable in which a thread stays
\* blocked in acquire(0) while no instance is leased (no holder is left to
\* release, so the thread can never be given an instance).
C5_NoneBlockedWhileNoneLeased ==
    \A p \in Pools :
        (max_limit[p] >= 1 /\ used[p] = {} /\ Settled(p)) =>
            \A t \in cv(p) : tmo[t] # "none"

\* C6: acquire does not stay blocked once live_count < max_limit: when no
\* wake-up is under way and the pool has room, no thread is blocked on cv.
C6_NoneBlockedWithCapacity ==
    \A p \in Pools :
        (resource_available(p) /\ Settled(p)) => cv(p) = {}

\* The pool whose leased set holds instance i (0 when none does)
Issuer(i) == IF \E p \in Pools : i \in used[p]
             THEN CHOOSE p \in Pools : i \in used[p]
             ELSE 0

\* C9: along any chain of moves the instance is released exactly once: a
\* moved-from lease holds no instance, the destruction of a lease that holds
\* no instance releases nothing, the destruction of the lease that holds the
\* instance takes it out of the leased set of the pool that issued it, and
\* no two leases hold the same instance.
C9_ReleasedExactlyOnce ==
    [][\A t \in Threads, d \in Slots :
          /\ \A s \in Slots :
                (move_ctor(t, d, s) \/ (d # s /\ move_assign(t, d, s))) =>
                    /\ crashed' \/ w'[t][s].ptr_ = 0
                    /\ crashed' \/ w'[t][d].ptr_ = w[t][s].ptr_
          /\ dtor(t, d) =>
                IF w[t][d].ptr_ = 0
                THEN UNCHANGED poolvars
                ELSE /\ Issuer(w[t][d].ptr_) # 0
                     /\ w[t][d].ptr_ \notin used'[Issuer(w[t][d].ptr_)]
          /\ \A g \in Slots :
                (g # d /\ w[t][g].alive /\ w[t][d].alive /\ w[t][d].ptr_ # 0)
                    => w[t][g].ptr_ # w[t][d].ptr_]_vars

\* C10: move-assigning lease s into lease d first releases what d holds to
\* d's pool, then hands d the instance of s together with the duty to
\* release it: whatever d was before, d afterwards refers to the pool that
\* issued the instance, so that destroying d returns it to that pool.
C10_AssignTransfersObligation ==
    [][\A t \in Threads, d \in Slots, s \in Slots :
          (d # s /\ w[t][s].ptr_ # 0 /\ move_assign(t, d, s)) =>
              /\ w[t][d].ptr_ # 0 =>
                    /\ Issuer(w[t][d].ptr_) = w[t][d].rcpool_
                    /\ w[t][d].ptr_ \notin used'[w[t][d].rcpool_]
              /\ w'[t][s].ptr_ = 0
              /\ w'[t][d].ptr_ = w[t][s].ptr_
              /\ w'[t][d].rcpool_ = Issuer(w[t][s].ptr_)]_vars


\* C11: release of an instance that is not in the leased set (released
\* before and now idle or dropped, never built, or not of this pool) changes
\* neither live_count nor the leased set nor the idle set, and notifies
\* nobody, whether it is called directly or by the destruction of a lease.
C11_ReleaseOfUnleasedIsNoOp ==
    [][\A t \in Threads :
          /\ \A i \in Insts :
                (i \notin used[1] /\ release(t, 1, i)) =>
                    UNCHANGED <<poolvars, pc>>
          /\ (/\ w[t][1].ptr_ # 0
              /\ w[t][1].rcpool_ = 1
              /\ w[t][1].ptr_ \notin used[1]
              /\ dtor(t, 1)) => UNCHANGED <<poolvars, pc>>]_vars

\* C11's case: one lease still refers to an instance that was released and
\* is idle now, another lease to an instance that was released and dropped.
C11_Witness ==
    /\ \E t \in Threads : w[t][1].alive /\ w[t][1].ptr_ \in unused[1]
    /\ \E t \in Threads :
          /\ w[t][1].alive
          /\ w[t][1].ptr_ # 0
          /\ w[t][1].ptr_ \notin used[1] \cup unused[1]


\* C12: in the scenario idle_limit = 1, max_limit = 2 with threads calling
\* get(0): never more than two instances are live or leased; a call made
\* while two are live blocks, and no call blocks otherwise; the notify of
\* a release unblocks exactly one of the blocked threads and leaves the
\* others blocked; a woken thread that finds room returns with an instance
\* and one that finds none blocks again; and once every wake-up is over,
\* threads are blocked only while two instances are leased, so that each
\* release has let exactly one blocked thread through.
C12_ReleaseUnblocksOne ==
    /\ [](/\ cur_sz[1] <= 2
          /\ Cardinality(used[1]) <= 2
          /\ (Settled(1) /\ cv(1) # {}) => Cardinality(used[1]) = 2)
    /\ [][\A t \in Threads :
            /\ (pc[t] = "ready" /\ pc'[t] = "waiting") =>
                  (cur_sz[1] = 2 /\ UNCHANGED poolvars)
            /\ (/\ pc[t] = "ready"
                /\ cur_sz[1] = 2
                /\ \E s \in Slots : get(t, 1, s, 0, "ok")) =>
                      pc'[t] = "waiting"
            /\ (cv(1) # {} /\ notify_one(t)) =>
                  /\ Cardinality(cv(1)) - Cardinality(cv(1)') = 1
                  /\ cv(1)' \subseteq cv(1)
            /\ (pc[t] = "woken" /\ wait_wake(t, "ok")) =>
                  IF cur_sz[1] < 2
                  THEN /\ ReturnsStatus(t, "SUCCESS")
                       /\ w'[t][dst[t]].ptr_ \in used'[1]
                       /\ cur_sz'[1] <= 2
                  ELSE pc'[t] = "waiting" /\ UNCHANGED poolvars]_vars

\* C12's case: with two instances leased and two threads blocked in get(0),
\* a release has discarded one instance and its notify has unblocked one of
\* the two threads, which has not run yet; the other is still blocked.
C12_Witness ==
    /\ idle_limit[1] = 1 /\ max_limit[1] = 2
    /\ cur_sz[1] = 1 /\ Cardinality(used[1]) = 1 /\ unused[1] = {}
    /\ \E n, m, t \in Threads :
          /\ pc[n] = "woken"
          /\ pc[m] = "waiting"
          /\ pc[t] = "ready"


\* Thread t destroys a lease holding instance i, which pool 1 has leased.
Releases(t, i) ==
    \E s \in Slots :
        /\ w[t][s].alive
        /\ w[t][s].ptr_ = i
        /\ w[t][s].rcpool_ = 1
        /\ i \in used[1]
        /\ dtor(t, s)

\* Thread t's call of get() returns a lease on instance i of pool 1.
Acquires(t, i) == Returns(t, GetWrapper(1, i, "SUCCESS"))

\* C13: a release at which the leased set, the released instance counted,
\* has at most idle_limit elements parks the instance in the idle set and
\* leaves live_count alone; an acquire that gets past the wait while the
\* idle set is non-empty returns one of the idle instances, moved to the
\* leased set, without a factory call; and every factory call, whether it
\* builds an instance or raises, is made with the idle set empty.
C13_ParkedIsReused ==
    [][\A t \in Threads :
          /\ \A i \in Insts :
                (Cardinality(used[1]) <= idle_limit[1] /\ Releases(t, i)) =>
                    /\ unused'[1] = unused[1] \cup {i}
                    /\ used'[1] = used[1] \ {i}
                    /\ cur_sz' = cur_sz
          /\ (/\ unused[1] # {}
              /\ \E st \in GetStatus \ {"TIMEOUT"} : ReturnsStatus(t, st)) =>
                    \E i \in unused[1] :
                        /\ Acquires(t, i)
                        /\ unused'[1] = unused[1] \ {i}
                        /\ used'[1] = used[1] \cup {i}
                        /\ nextInst' = nextInst
                        /\ cur_sz' = cur_sz
          /\ (\/ nextInst' # nextInst
              \/ ReturnsStatus(t, "CTORF")
              \/ ReturnsStatus(t, "UNKNOWN")) => unused[1] = {}]_vars

\* C13's case: an instance was parked by a release, the pool has room, and
\* a thread woken from its wait is about to acquire: it will get the parked
\* instance.
C13_Witness ==
    /\ unused[1] # {}
    /\ resource_available(1)
    /\ \E t \in Threads : pc[t] = "woken"

\* Instances the factory built that are neither leased nor idle any more.
Discarded ==
    {i \in Insts : i < nextInst /\ \A p \in Pools : i \notin used[p] \cup unused[p]}

\* C14: a release at which the leased set, the released instance counted,
\* has more than idle_limit elements decreases live_count by exactly one
\* and puts the instance in neither set; a discarded instance stays
\* discarded, and no acquire returns it.
C14_DiscardedNeverReturns ==
    [][/\ \A t \in Threads, i \in Insts :
             (Cardinality(used[1]) > idle_limit[1] /\ Releases(t, i)) =>
                 /\ cur_sz'[1] = cur_sz[1] - 1
                 /\ used'[1] = used[1] \ {i}
                 /\ unused' = unused
                 /\ i \in Discarded'
       /\ Discarded \subseteq Discarded'
       /\ \A t \in Threads, i \in Discarded : ~Acquires(t, i)]_vars

\* C14's case: an instance was discarded by a release and a later acquire
\* has returned another instance.
C14_Witness ==
    /\ Discarded # {}
    /\ \E t \in Threads :
          /\ w[t][1].alive
          /\ w[t][1].ptr_ \in used[1]
          /\ \A i \in Discarded : w[t][1].ptr_ > i

\* C15: construction builds no instance (live_count 0 and both sets empty
\* until a factory call has succeeded) and sets max_limit to the larger of
\* idle_limit and the configured max_limit (shown by pool 2, built with
\* idle_limit 0 from the same max_limit); up to max_limit instances are
\* leased; and no operation changes idle_limit or max_limit.
C15_ConstructionCoercesMax ==
    /\ [](\A p \in Pools :
             /\ max_limit[p] >= idle_limit[p]
             /\ max_limit[p] >= max_limit[2]
             /\ max_limit[p] \in {idle_limit[p], max_limit[2]}
             /\ Cardinality(used[p]) <= max_limit[p]
             /\ nextInst = 1 =>
                   (cur_sz[p] = 0 /\ used[p] = {} /\ unused[p] = {}))
    /\ [][UNCHANGED <<idle_limit, max_limit>>]_vars

\* C15's case: a pool configured with max_limit < idle_limit has idle_limit
\* instances leased at once.
C15_Witness ==
    /\ max_limit[2] < idle_limit[1]
    /\ idle_limit[1] >= 2
    /\ Cardinality(used[1]) = idle_limit[1]

\* C16: whenever the idle set of a pool is non-empty and no wake-up is under
\* way, no thread is blocked in acquire on that pool.
C16_IdleIsHandedOut ==
    \A p \in Pools : (unused[p] # {} /\ Settled(p)) => cv(p) = {}

\* The state of instance i in pool 1
InstState(i) ==
    CASE i \in used[1] /\ i \in unused[1] -> "leased_and_idle"
      [] i \in used[1]                    -> "leased"
      [] i \in unused[1]                  -> "idle"
      [] i >= nextInst                    -> "nonexistent"
      [] OTHER                            -> "discarded"

\* C17: no instance is leased and idle at once, and an instance changes
\* state only from nonexistent to leased in an acquire whose factory call
\* succeeded, from idle to leased in an acquire that builds nothing, and
\* from leased to idle or discarded in a release of it; a discarded
\* instance changes state no more.
C17_InstanceLifecycle ==
    [][\A i \in Insts :
          /\ InstState(i) # "leased_and_idle"
          /\ InstState(i)' # "leased_and_idle"
          /\ InstState(i)' # InstState(i) =>
                \/ /\ InstState(i) = "nonexistent"
                   /\ InstState(i)' = "leased"
                   /\ \E t \in Threads :
                         CallsFactory(t, "ok") /\ Acquires(t, i)
                \/ /\ InstState(i) = "idle"
                   /\ InstState(i)' = "leased"
                   /\ nextInst' = nextInst
                   /\ \E t \in Threads : Acquires(t, i)
                \/ /\ InstState(i) = "leased"
                   /\ InstState(i)' \in {"idle", "discarded"}
                   /\ \E t \in Threads : Releases(t, i)]_vars

\* C17's case: one instance has been discarded, another is idle after its
\* lease, and the factory has instances left to build.
C17_Witness ==
    /\ \E i \in Insts : InstState(i) = "discarded"
    /\ \E i \in Insts : InstState(i) = "idle"
    /\ \E i \in Insts : InstState(i) = "nonexistent"

\* C18: in every reachable state the idle set of a pool has at most
\* idle_limit elements; instances are idle only while live_count is at most
\* idle_limit.
C18_IdleWithinIdleLimit ==
    \A p \in Pools :
        /\ Cardinality(unused[p]) <= idle_limit[p]
        /\ unused[p] # {} => cur_sz[p] <= idle_limit[p]

\* C18's case: releases have filled the idle set up to an idle_limit of at
\* least two.
C18_Witness ==
    /\ idle_limit[1] >= 2
    /\ Cardinality(unused[1]) = idle_limit[1]

====
